---- MODULE Spec2Model ----
(***************************************************************************)
(* Model of src/app.py: the AWS Lambda handler that forwards a prompt to   *)
(* the Gemini image model and returns the generated images.                *)
(*                                                                         *)
(* Encoding of Python values                                               *)
(*   - a str is a sequence of atoms; the atom " " is whitespace and every  *)
(*     other atom is a run of non-whitespace characters (error messages    *)
(*     are spelled one character per atom so that the regular expression   *)
(*     of _derive_status_code_from_exception can be evaluated);            *)
(*   - an arbitrary object (a JSON value, an attribute that may be         *)
(*     missing) is a record [t, s, n]: t = "none" for None or a missing    *)
(*     key/attribute, "str" with its text in s, "int" with its value in n, *)
(*     "list" for a non-empty JSON array;                                  *)
(*   - a raised exception is a record carrying the class name in exc.      *)
(***************************************************************************)
EXTENDS Integers, Sequences, FiniteSets

VARIABLES
    env,        \* os.environ.get("GOOGLE_API_KEY_PARAM") of this process
    cachedKey,  \* the module global _CACHED_API_KEY
    ssmCalls,   \* number of _SSM_CLIENT.get_parameter calls made by this process
    escaped,    \* whether an invocation of this process has ended by raising
    pc,         \* "idle": waiting for the host; "done": lambda_handler has ended
    inv,        \* the inputs of the invocation that has just ended
    out         \* what that invocation did and how it ended

vars == <<env, cachedKey, ssmCalls, escaped, pc, inv, out>>

----------------------------------------------------------------------------
(* Bounds of the model *)

MaxSsmCalls == 2

MaxCandidates == 2

MaxParts == 2

----------------------------------------------------------------------------
(* Python values *)

None == [t |-> "none", s |-> <<>>, n |-> 0]

PyStr(s) == [t |-> "str", s |-> s, n |-> 0]

PyInt(n) == [t |-> "int", s |-> <<>>, n |-> n]

PyList == [t |-> "list", s |-> <<>>, n |-> 0]

\* bool(value): None, "", 0 are falsy
Truthy(v) ==
    CASE v.t = "none" -> FALSE
      [] v.t = "str"  -> v.s # <<>>
      [] v.t = "int"  -> v.n # 0
      [] OTHER        -> TRUE

IsStr(v) == v.t = "str"

IsInt(v) == v.t = "int"

\* a or b
PyOr(a, b) == IF Truthy(a) THEN a ELSE b

Whitespace == {" "}

RECURSIVE LStrip(_)
LStrip(s) ==
    IF s # <<>> /\ Head(s) \in Whitespace THEN LStrip(Tail(s)) ELSE s

RECURSIVE RStrip(_)
RStrip(s) ==
    IF s # <<>> /\ s[Len(s)] \in Whitespace
    THEN RStrip(SubSeq(s, 1, Len(s) - 1))
    ELSE s

\* str.strip()
Strip(s) == RStrip(LStrip(s))

----------------------------------------------------------------------------
(* Program constants *)

DEFAULT_MODEL == <<"gemini-2.5-flash-image-preview">>

DEFAULT_MIME_TYPE == <<"image/png">>

MsgNoApiKey == <<"No se pudo obtener la API key de Gemini">>

MsgNoImages == <<"Gemini no genero imagenes para el prompt proporcionado">>

MsgEventEmpty == <<"El evento de la solicitud esta vacio">>

MsgBodyEmpty == <<"El cuerpo de la solicitud esta vacio">>

MsgBodyNotJson == <<"El cuerpo de la solicitud no es un JSON valido">>

MsgBodyUnsupported == <<"Formato de cuerpo no soportado">>

MsgPromptRequired == <<"El campo 'prompt' es obligatorio">>

MsgNoGet == <<"object has no attribute 'get'">>

----------------------------------------------------------------------------
(* Results of a function that may raise *)

Ok(v) == [exc |-> "", msg |-> <<>>, val |-> v]

Raise(cls, msg) == [exc |-> cls, msg |-> msg, val |-> None]

----------------------------------------------------------------------------
(* Inbound event *)

\* The decoded JSON object of a body; a missing key reads as None (dict.get)
Payload(prompt, model, mimeType, mime_type, negativePrompt, negative_prompt) ==
    [prompt |-> prompt, model |-> model, mimeType |-> mimeType,
     mime_type |-> mime_type, negativePrompt |-> negativePrompt,
     negative_prompt |-> negative_prompt]

EmptyPayload == Payload(None, None, None, None, None, None)

\* A body: t is the Python type of event["body"] ("none" when the key is
\* missing or null); for a str, syn tells what json.loads does with the text
\* ("empty" text, "invalid" -> JSONDecodeError, "json" -> a value); kind is
\* the type of the decoded value and obj the decoded object when it is one.
Body(t, syn, kind, obj) == [t |-> t, syn |-> syn, kind |-> kind, obj |-> obj]

\* An event: None, or a dict (empty or not) with its body
Event(t, empty, body) == [t |-> t, empty |-> empty, body |-> body]

NoBody == Body("none", "empty", "null", EmptyPayload)

JsonBody(obj) == Body("str", "json", "object", obj)

----------------------------------------------------------------------------
(* _build_response and the payloads it is given *)

\* json.dumps(payload) is kept as the payload itself: kind names which of the
\* three payload shapes the handler builds, and the fields a shape does not
\* have stay at their empty values.
MessagePayload(message) ==
    [model |-> <<>>, kind |-> "message", message |-> message, images |-> <<>>,
     error |-> "", status |-> 0, detail |-> None, traceId |-> None]

SuccessPayload(model, images) ==
    [model |-> model, kind |-> "success", message |-> <<>>, images |-> images,
     error |-> "", status |-> 0, detail |-> None, traceId |-> None]

ErrorPayload(status, message, detail, traceId) ==
    [model |-> <<>>, kind |-> "error", message |-> message, images |-> <<>>,
     error |-> "GeminiError", status |-> status, detail |-> detail,
     traceId |-> traceId]

_build_response(status_code, payload) ==
    [body |-> payload,
     statusCode |-> status_code,
     headers |-> "Content-Type: application/json"]

NoResponse == _build_response(0, MessagePayload(<<>>))

----------------------------------------------------------------------------
(* _derive_status_code_from_exception *)

Digits == {"0", "1", "2", "3", "4", "5", "6", "7", "8", "9"}

WordChars == Digits \cup {"x", "_"}

DigitVal(c) ==
    CASE c = "0" -> 0 [] c = "1" -> 1 [] c = "2" -> 2 [] c = "3" -> 3
      [] c = "4" -> 4 [] c = "5" -> 5 [] c = "6" -> 6 [] c = "7" -> 7
      [] c = "8" -> 8 [] OTHER -> 9

\* re.match(r"^(\d{3})\b", message): three digits, then the end of the text
\* or a character that is not a word character
MatchesLeadingCode(message) ==
    /\ Len(message) >= 3
    /\ \A i \in 1..3 : message[i] \in Digits
    /\ Len(message) > 3 => message[4] \notin WordChars

\* int(match.group(1))
LeadingCode(message) ==
    100 * DigitVal(message[1]) + 10 * DigitVal(message[2]) + DigitVal(message[3])

\* An exception object: the four attributes the loop probes, str(error),
\* and the two attributes the handler copies into the payload
ErrorObj(code, status_code, status, http_status, message, details, trace_id) ==
    [message |-> message, status |-> status, status_code |-> status_code,
     code |-> code, http_status |-> http_status,
     details |-> details, trace_id |-> trace_id]

PlainError(message) == ErrorObj(None, None, None, None, message, None, None)

\* the attributes in the order of the for loop
StatusAttrs(error) ==
    <<error.code, error.status_code, error.status, error.http_status>>

RECURSIVE FirstInt(_)
FirstInt(attrs) ==
    IF attrs = <<>> THEN None
    ELSE IF IsInt(Head(attrs)) THEN Head(attrs)
    ELSE FirstInt(Tail(attrs))

\* Faulty variant: the numeric attributes of the error are never probed
_derive_status_code_message_only(error) ==
    LET message == Strip(error.message)
    IN  IF MatchesLeadingCode(message) THEN PyInt(LeadingCode(message))
        ELSE None

_derive_status_code_from_exception(error) ==
    LET value == FirstInt(StatusAttrs(error))
        message == Strip(error.message)
    IN  IF IsInt(value) THEN value
        ELSE IF MatchesLeadingCode(message) THEN PyInt(LeadingCode(message))
        ELSE None

----------------------------------------------------------------------------
(* Request parsing *)

\* json.loads(body): the decoded value, or JSONDecodeError
JsonLoads(body) ==
    IF body.syn = "json" THEN Ok([kind |-> body.kind, obj |-> body.obj])
    ELSE Raise("JSONDecodeError", <<>>)

\* Faulty variant: a body that is already a dict is taken as the payload
_parse_body_accepting_dict(event) ==
    IF event.t = "none" \/ event.empty
    THEN Raise("BadRequestError", MsgEventEmpty)
    ELSE LET body == event.body IN
         IF body.t = "dict" THEN Ok([kind |-> body.kind, obj |-> body.obj])
         ELSE IF body.t = "str" /\ body.syn = "json" THEN JsonLoads(body)
         ELSE Raise("BadRequestError", MsgBodyUnsupported)

_parse_body(event) ==
    IF event.t = "none" \/ event.empty
    THEN Raise("BadRequestError", MsgEventEmpty)
    ELSE LET body == event.body IN
         IF body.t = "str"
         THEN IF body.syn = "empty"
              THEN Raise("BadRequestError", MsgBodyEmpty)
              ELSE LET loaded == JsonLoads(body) IN
                   IF loaded.exc = "JSONDecodeError"
                   THEN Raise("BadRequestError", MsgBodyNotJson)
                   ELSE loaded
         ELSE Raise("BadRequestError", MsgBodyUnsupported)

\* payload.get(...) exists only on a dict: any other decoded value raises
IsDict(payload) == payload.kind = "object"

_extract_prompt(payload) ==
    IF ~IsDict(payload) THEN Raise("AttributeError", MsgNoGet)
    ELSE LET got == payload.obj.prompt
             prompt == IF IsStr(got) THEN PyStr(Strip(got.s)) ELSE got
         IN  IF ~Truthy(prompt)
             THEN Raise("BadRequestError", MsgPromptRequired)
             ELSE Ok(prompt)

\* Faulty variant: the requested model is ignored
_resolve_model_default_only(payload) == DEFAULT_MODEL

_resolve_model(payload) ==
    LET model == payload.obj.model IN
    IF IsStr(model) /\ Strip(model.s) # <<>> THEN Strip(model.s)
    ELSE DEFAULT_MODEL

_build_content_parts(prompt, payload) ==
    LET negative_prompt ==
            PyOr(payload.obj.negativePrompt, payload.obj.negative_prompt)
    IN  IF IsStr(negative_prompt) /\ Strip(negative_prompt.s) # <<>>
        THEN <<prompt, PyStr(<<"Evita: ">> \o Strip(negative_prompt.s))>>
        ELSE <<prompt>>

----------------------------------------------------------------------------
(* Upstream result and _extract_images *)

\* The object a part exposes as inline_data / inlineData; present = FALSE
\* when the part has no such attribute (or it is None)
Inline(present, data, mime_type, mimeType) ==
    [mimeType |-> mimeType, mime_type |-> mime_type, present |-> present,
     data |-> data]

NoInline == Inline(FALSE, None, None, None)

Part(inline_data, inlineData) ==
    [inline_data |-> inline_data, inlineData |-> inlineData]

\* A candidate; hasContent = FALSE when candidate.content is missing
Candidate(hasContent, parts) == [hasContent |-> hasContent, parts |-> parts]

\* The upstream result; hasCandidates = FALSE when result.candidates is missing
Result(hasCandidates, candidates) ==
    [hasCandidates |-> hasCandidates, candidates |-> candidates]

ImagePayload(mime_type, data) == [mimeType |-> mime_type, data |-> data]

\* One pass of the inner loop body: the images a part adds
ImagesOfPart(part) ==
    LET inline_data ==
            IF part.inline_data.present THEN part.inline_data
            ELSE part.inlineData
    IN  IF inline_data.present /\ Truthy(inline_data.data)
        THEN LET mime == PyOr(inline_data.mime_type,
                              PyOr(inline_data.mimeType,
                                   PyStr(DEFAULT_MIME_TYPE)))
             IN  <<ImagePayload(mime.s, inline_data.data.s)>>
        ELSE <<>>

RECURSIVE ImagesOfParts(_)
ImagesOfParts(parts) ==
    IF parts = <<>> THEN <<>>
    ELSE ImagesOfPart(Head(parts)) \o ImagesOfParts(Tail(parts))

RECURSIVE ImagesOfCandidates(_)
ImagesOfCandidates(candidates) ==
    IF candidates = <<>> THEN <<>>
    ELSE LET candidate == Head(candidates)
             parts == IF candidate.hasContent THEN candidate.parts ELSE <<>>
         IN  ImagesOfParts(parts) \o ImagesOfCandidates(Tail(candidates))

\* Faulty variant: only the first candidate is read
_extract_images_first_candidate(result) ==
    IF result.hasCandidates /\ result.candidates # <<>>
    THEN ImagesOfCandidates(<<Head(result.candidates)>>)
    ELSE <<>>

_extract_images(result) ==
    ImagesOfCandidates(IF result.hasCandidates THEN result.candidates ELSE <<>>)

----------------------------------------------------------------------------
(* Credential resolution *)

\* What _SSM_CLIENT.get_parameter does: t = "response" returns a dict, which
\* holds ["Parameter"]["Value"] = value when wellFormed; t = "ClientError" or
\* "BotoCoreError" raises that exception
StoreOutcome(t, wellFormed, value) ==
    [t |-> t, value |-> value, wellFormed |-> wellFormed]

\* Faulty variant: a failed lookup yields the parameter name as the key
_get_api_key_fallback(cache, parameter_name, store) ==
    IF Truthy(cache)
    THEN [exc |-> "", cache |-> cache, key |-> cache, called |-> FALSE]
    ELSE IF ~Truthy(parameter_name)
    THEN [exc |-> "", cache |-> cache, key |-> None, called |-> FALSE]
    ELSE IF store.t = "response" /\ store.wellFormed
    THEN [exc |-> "", cache |-> store.value, key |-> store.value,
          called |-> TRUE]
    ELSE [exc |-> "", cache |-> cache, key |-> parameter_name, called |-> TRUE]

\* Faulty variant: the cached key is not consulted
_get_api_key_uncached(cache, parameter_name, store) ==
    IF ~Truthy(parameter_name)
    THEN [exc |-> "", cache |-> cache, key |-> None, called |-> FALSE]
    ELSE IF store.t = "response"
    THEN IF store.wellFormed
         THEN [exc |-> "", cache |-> store.value, key |-> store.value,
               called |-> TRUE]
         ELSE [exc |-> "KeyError", cache |-> cache, key |-> None,
               called |-> TRUE]
    ELSE [exc |-> "", cache |-> cache, key |-> None, called |-> TRUE]

\* Returns the key (or the escaping exception), the new _CACHED_API_KEY and
\* whether get_parameter was called
_get_api_key(cache, parameter_name, store) ==
    IF Truthy(cache)
    THEN [exc |-> "", cache |-> cache, key |-> cache, called |-> FALSE]
    ELSE IF ~Truthy(parameter_name)
    THEN [exc |-> "", cache |-> cache, key |-> None, called |-> FALSE]
    ELSE IF store.t = "response"
    THEN IF store.wellFormed
         THEN [exc |-> "", cache |-> store.value, key |-> store.value,
               called |-> TRUE]
         ELSE [exc |-> "KeyError", cache |-> cache, key |-> None,
               called |-> TRUE]
    ELSE [exc |-> "", cache |-> cache, key |-> None, called |-> TRUE]

----------------------------------------------------------------------------
(* lambda_handler *)

\* What model.generate_content does: returns result, or raises error
UpstreamOutcome(t, result, error) == [t |-> t, error |-> error, result |-> result]

\* The one call to the generation capability: genai.configure(api_key),
\* genai.GenerativeModel(model_name), generate_content(**request_kwargs)
GenerateCall(api_key, model_name, parts, generation_config) ==
    [model |-> model_name, parts |-> parts, api_key |-> api_key,
     generation_config |-> generation_config, role |-> "user"]

\* How an invocation ended and what it did on the way
\* (api_key: what _get_api_key returned; cache: _CACHED_API_KEY afterwards;
\* ssmCalled: get_parameter was called; parsed: _parse_body was called;
\* calls: the calls made to the generation capability)
Outcome(ended, exc, response, api_key, cache, ssmCalled, parsed, calls) ==
    [exc |-> exc, cache |-> cache, api_key |-> api_key, ended |-> ended,
     response |-> response, ssmCalled |-> ssmCalled, parsed |-> parsed,
     calls |-> calls]

\* except Exception as error: the GeminiError response
GeminiErrorResponse(error) ==
    LET status_code ==
            PyOr(_derive_status_code_from_exception(error), PyInt(502)).n
        message == error.message
        detail ==
            IF /\ IsStr(error.details)
               /\ Strip(error.details.s) # <<>>
               /\ Strip(error.details.s) # message
            THEN PyStr(Strip(error.details.s)) ELSE None
        trace_id ==
            IF IsStr(error.trace_id) /\ Strip(error.trace_id.s) # <<>>
            THEN PyStr(Strip(error.trace_id.s)) ELSE None
    IN  _build_response(status_code,
                        ErrorPayload(status_code, message, detail, trace_id))

\* The request keyword arguments of generate_content
RequestConfig(payload) == None

\* The try block from the call of generate_content on
InvokeAndExtract(api_key, model_name, parts, payload, upstream, k) ==
    LET call == GenerateCall(api_key, model_name, parts, RequestConfig(payload))
        done(response) ==
            Outcome("return", "", response, k.key, k.cache, k.called, TRUE,
                    <<call>>)
    IN  IF upstream.t = "raise"
        THEN done(GeminiErrorResponse(upstream.error))
        ELSE LET images == _extract_images(upstream.result) IN
             IF images = <<>>
             THEN done(_build_response(502, MessagePayload(MsgNoImages)))
             ELSE done(_build_response(200, SuccessPayload(model_name, images)))

lambda_handler(cache, parameter_name, event, store, upstream) ==
    LET k == _get_api_key(cache, parameter_name, store)
        ended(response, calls) ==
            Outcome("return", "", response, k.key, k.cache, k.called, TRUE,
                    calls)
    IN  IF k.exc # ""
        THEN Outcome("raise", k.exc, NoResponse, k.key, k.cache, k.called,
                     FALSE, <<>>)
        ELSE IF ~Truthy(k.key)
        THEN Outcome("return", "",
                     _build_response(500, MessagePayload(MsgNoApiKey)),
                     k.key, k.cache, k.called, FALSE, <<>>)
        ELSE LET parsed == _parse_body(event) IN
             IF parsed.exc = "BadRequestError"
             THEN ended(_build_response(400, MessagePayload(parsed.msg)), <<>>)
             ELSE LET payload == parsed.val
                      prompt == _extract_prompt(payload)
                  IN  IF prompt.exc = "BadRequestError"
                      THEN ended(_build_response(400, MessagePayload(prompt.msg)),
                                 <<>>)
                      ELSE IF prompt.exc # ""
                      THEN ended(GeminiErrorResponse(PlainError(prompt.msg)), <<>>)
                      ELSE InvokeAndExtract(k.key, _resolve_model(payload),
                               _build_content_parts(prompt.val, payload),
                               payload, upstream, k)

----------------------------------------------------------------------------
(* Inputs *)

ParameterNames == {None, PyStr(<<>>), PyStr(<<"/prod/key">>)}

Key1 == PyStr(<<"key-1">>)

Key2 == PyStr(<<"key-2">>)

StoreOutcomes ==
    {StoreOutcome("response", TRUE, v) : v \in {Key1, Key2, PyStr(<<>>)}}
    \cup {StoreOutcome("response", FALSE, None),
          StoreOutcome("ClientError", FALSE, None),
          StoreOutcome("BotoCoreError", FALSE, None)}

Prompts ==
    {None, PyStr(<<>>), PyStr(<<" ">>), PyInt(0), PyInt(5), PyList,
     PyStr(<<"cat">>), PyStr(<<" ", "a", " ", "cat", " ">>)}

Models ==
    {None, PyStr(<<>>), PyStr(<<" ">>), PyInt(7), PyStr(<<"gemini-1.5-pro">>),
     PyStr(<<" ", "gemini-1.5-pro", " ">>)}

MimeTypes == {None, PyStr(<<" ">>), PyStr(<<"application/json">>)}

SnakeMimeTypes == {None, PyStr(<<"image/jpeg">>)}

NegativePrompts == {None, PyStr(<<" ", "blur", " ">>)}

SnakeNegativePrompts == {None, PyStr(<<"text">>)}

\* Request objects: every prompt with every model, and for the plain prompt
\* every combination of the optional fields
Payloads ==
    {Payload(p, m, None, None, None, None) : p \in Prompts, m \in Models}
    \cup {Payload(PyStr(<<"cat">>), m, mt, smt, np, snp) :
            m \in {None, PyStr(<<"gemini-1.5-pro">>)}, mt \in MimeTypes,
            smt \in SnakeMimeTypes, np \in NegativePrompts,
            snp \in SnakeNegativePrompts}

BasicPayload == Payload(PyStr(<<"cat">>), None, None, None, None, None)

Bodies ==
    {NoBody,
     Body("str", "empty", "null", EmptyPayload),
     Body("str", "invalid", "null", EmptyPayload),
     Body("int", "empty", "null", EmptyPayload),
     Body("dict", "empty", "object", BasicPayload)}
    \cup {Body("str", "json", kind, EmptyPayload) :
            kind \in {"null", "number", "array", "string"}}
    \cup {JsonBody(obj) : obj \in Payloads}

Events ==
    {Event("none", TRUE, NoBody), Event("dict", TRUE, NoBody)}
    \cup {Event("dict", FALSE, body) : body \in Bodies}

BasicEvent == Event("dict", FALSE, JsonBody(BasicPayload))

\* Parts: plain text; an image under inline_data with its mime type; an image
\* under inlineData without a mime type; the same with a camelCase mime type;
\* an inline_data object whose data is empty
TextPart == Part(NoInline, NoInline)

JpegPart ==
    Part(Inline(TRUE, PyStr(<<"AAAA">>), PyStr(<<"image/jpeg">>), None), NoInline)

BarePart == Part(NoInline, Inline(TRUE, PyStr(<<"BBBB">>), None, None))

WebpPart ==
    Part(NoInline, Inline(TRUE, PyStr(<<"CCCC">>), None, PyStr(<<"image/webp">>)))

EmptyPart ==
    Part(Inline(TRUE, PyStr(<<>>), PyStr(<<"image/png">>), None), NoInline)

PartKinds == {TextPart, JpegPart, BarePart}

SeqsUpTo(S, n) == UNION {[1..k -> S] : k \in 0..n}

Candidates ==
    {Candidate(FALSE, <<>>)}
    \cup {Candidate(TRUE, parts) : parts \in SeqsUpTo(PartKinds, MaxParts)}

Results ==
    {Result(FALSE, <<>>)}
    \cup {Result(TRUE, cs) : cs \in SeqsUpTo(Candidates, MaxCandidates)}

EmptyResult == Result(FALSE, <<>>)

SampleResults ==
    {EmptyResult,
     Result(TRUE, <<Candidate(FALSE, <<>>)>>),
     Result(TRUE, <<Candidate(TRUE, <<TextPart, EmptyPart>>)>>),
     Result(TRUE, <<Candidate(TRUE, <<JpegPart>>)>>),
     Result(TRUE, <<Candidate(TRUE, <<BarePart, TextPart>>),
                    Candidate(TRUE, <<WebpPart, BarePart>>)>>)}

StatusValues(ints) == {None, PyStr(<<"NOT_FOUND">>)} \cup {PyInt(n) : n \in ints}

Messages ==
    {<<"x", "x">>, <<"4", "0", "4">>, <<"4", "0", "4", " ", "x">>,
     <<"4", "0", "4", "0">>, <<"4", "0", "4", "x">>, <<"4", "0">>,
     <<" ", "5", "0", "3", ":", " ", "x">>, <<"0", "0", "0", " ", "x">>,
     <<"2", "0", "0", " ", "x">>, <<"x", " ", "4", "0", "4">>}

\* Raised errors: every combination of the probed attributes with every
\* message, and for two messages every combination of details and trace_id
Errors ==
    {ErrorObj(c, sc, s, hs, m, None, None) :
        c \in StatusValues({0, 200, 429}), sc \in {None, PyInt(503)},
        s \in {None, PyInt(404)}, hs \in {None, PyInt(500)}, m \in Messages}
    \cup {ErrorObj(None, None, None, None, m, d, tr) :
            m \in {<<"x", "x">>, <<"4", "0", "4", " ", "x">>},
            d \in {None, PyStr(<<" ", "more", " ">>), PyStr(<<"x", "x", " ">>)},
            tr \in {None, PyStr(<<" ">>), PyStr(<<"trace-1">>)}}

SampleErrors ==
    {PlainError(<<"x", "x">>),
     PlainError(<<"4", "0", "4", " ", "x">>),
     ErrorObj(PyInt(429), None, None, None, <<"x", "x">>, None, None),
     ErrorObj(PyInt(200), None, None, None, <<"x", "x">>, None, None)}

Returned(results) == {UpstreamOutcome("return", r, PlainError(<<>>)) : r \in results}

Raised(errors) == {UpstreamOutcome("raise", EmptyResult, e) : e \in errors}

----------------------------------------------------------------------------
(* The process *)

NoStore == StoreOutcome("unused", FALSE, None)

NoUpstream == UpstreamOutcome("unused", EmptyResult, PlainError(<<>>))

Invocation(event, store, upstream, cacheAtEntry) ==
    [event |-> event, store |-> store, upstream |-> upstream,
     cacheAtEntry |-> cacheAtEntry]

NoInvocation == Invocation(Event("none", TRUE, NoBody), NoStore, NoUpstream, None)

NoOutcome == Outcome("none", "", NoResponse, None, None, FALSE, FALSE, <<>>)

\* A cold process: the module has just been imported
Init ==
    /\ env \in ParameterNames
    /\ cachedKey = None
    /\ ssmCalls = 0
    /\ escaped = FALSE
    /\ pc = "idle"
    /\ inv = NoInvocation
    /\ out = NoOutcome

\* The host calls lambda_handler(event, context) and the handler runs to its
\* end; store and upstream are what the two collaborators do if they are called
Invoke(events, stores, upstreams) ==
    /\ pc = "idle"
    /\ ssmCalls < MaxSsmCalls
    /\ \E event \in events, store \in stores, upstream \in upstreams :
          LET o == lambda_handler(cachedKey, env, event, store, upstream) IN
          /\ out' = o
          /\ inv' = Invocation(event,
                               IF o.ssmCalled THEN store ELSE NoStore,
                               IF o.calls # <<>> THEN upstream ELSE NoUpstream,
                               cachedKey)
          /\ cachedKey' = o.cache
          /\ ssmCalls' = IF o.ssmCalled THEN ssmCalls + 1 ELSE ssmCalls
          /\ escaped' = (escaped \/ o.ended = "raise")
    /\ pc' = "done"
    /\ UNCHANGED env

\* The host takes the response (or the raised exception) of the invocation
Deliver ==
    /\ pc = "done"
    /\ pc' = "idle"
    /\ inv' = NoInvocation
    /\ out' = NoOutcome
    /\ UNCHANGED <<env, cachedKey, ssmCalls, escaped>>

Next ==
    \/ Invoke(Events, StoreOutcomes, Returned(SampleResults) \cup Raised(SampleErrors))
    \/ Deliver

Spec == Init /\ [][Next]_vars

\* The same process with one well-formed request and a working secret store,
\* over every upstream outcome within the bounds
NextUpstream ==
    \/ Invoke({BasicEvent}, {StoreOutcome("response", TRUE, Key1)},
              Returned(Results) \cup Raised(Errors))
    \/ Deliver

SpecUpstream == Init /\ [][NextUpstream]_vars

----------------------------------------------------------------------------
(* Properties *)

Done == pc = "done"

\* The invocation returned the success response
Succeeded ==
    /\ out.ended = "return"
    /\ out.response.statusCode = 200
    /\ out.response.body.kind = "success"

\* The invocation got a usable key from _get_api_key
KeyResolved == out.exc = "" /\ Truthy(out.api_key)

\* The invocation started cold and the key could not be obtained: the
\* parameter name is unset or empty, or the lookup raised a service error
KeyUnobtainable ==
    /\ ~Truthy(inv.cacheAtEntry)
    /\ \/ ~Truthy(env)
       \/ inv.store.t \in {"ClientError", "BotoCoreError"}

\* C1: for every event, when no credential can be resolved (parameter name
\* unset, or the secret-store lookup fails) the response is 500 with the fixed
\* configuration-missing message, the body is never parsed and the generation
\* capability is never called.
C1_MissingKeyIs500 ==
    (Done /\ KeyUnobtainable) =>
        /\ out.ended = "return"
        /\ out.response = _build_response(500, MessagePayload(MsgNoApiKey))
        /\ ~out.parsed
        /\ out.calls = <<>>

C1_Witness ==
    /\ Done
    /\ inv.event = BasicEvent
    /\ inv.store.t = "ClientError"
    /\ KeyUnobtainable
    /\ out.response.statusCode = 500

\* The body field is absent, an empty string, a string that is not JSON, or
\* not a string at all
BodyUnusable(event) ==
    \/ event.t = "none"
    \/ event.empty
    \/ event.body.t = "none"
    \/ event.body.t = "str" /\ event.body.syn \in {"empty", "invalid"}
    \/ event.body.t \notin {"none", "str"}

\* C2: with a resolved credential, an event whose body is absent, empty, not
\* valid JSON or not a string gets 400 with a {message} body, and the
\* generation capability is not called.
C2_BadBodyIs400 ==
    (Done /\ KeyResolved /\ BodyUnusable(inv.event)) =>
        /\ out.ended = "return"
        /\ out.response.statusCode = 400
        /\ out.response.body.kind = "message"
        /\ out.response.body.message # <<>>
        /\ out.calls = <<>>

C2_Witness ==
    /\ Done
    /\ KeyResolved
    /\ inv.event.t = "dict"
    /\ inv.event.body.t = "str"
    /\ inv.event.body.syn = "invalid"
    /\ out.response.statusCode = 400

\* The body is a string holding valid JSON
BodyIsJson(event) ==
    /\ event.t = "dict"
    /\ ~event.empty
    /\ event.body.t = "str"
    /\ event.body.syn = "json"

\* The decoded body has no non-empty prompt: it is no object, or its prompt
\* is missing, not a string, or empty after trimming
LacksPrompt(body) ==
    \/ body.kind # "object"
    \/ ~IsStr(body.obj.prompt)
    \/ Strip(body.obj.prompt.s) = <<>>

\* C3: with a resolved credential, every valid JSON body without a non-empty
\* string prompt, whatever JSON value it decodes to, gets 400 and the
\* generation capability is not called.
C3_NoPromptIs400 ==
    (Done /\ KeyResolved /\ BodyIsJson(inv.event) /\ LacksPrompt(inv.event.body)) =>
        /\ out.ended = "return"
        /\ out.response.statusCode = 400
        /\ out.calls = <<>>

\* A part carries inline image data under one of its two attribute names
Carries(part) ==
    \E inline \in {part.inline_data, part.inlineData} :
        inline.present /\ IsStr(inline.data) /\ inline.data.s # <<>>

RECURSIVE PartsInOrder(_)
\* Every part of every candidate, in candidate order then part order
PartsInOrder(candidates) ==
    IF candidates = <<>> THEN <<>>
    ELSE (IF Head(candidates).hasContent THEN Head(candidates).parts ELSE <<>>)
         \o PartsInOrder(Tail(candidates))

\* The parts of an upstream result that carry inline image data, in order
CarryingParts(result) ==
    SelectSeq(PartsInOrder(IF result.hasCandidates THEN result.candidates
                           ELSE <<>>),
              Carries)

UpstreamReturned == inv.upstream.t = "return"

UpstreamRaised == inv.upstream.t = "raise"

\* C4: the response is 200 exactly when the upstream call returned and at
\* least one image was extracted (the body then carries model and a non-empty
\* images list); an upstream call that returned no image gives 502 with the
\* fixed no-images message; no response that reports a failure is a 200.
C4_NoPartialSuccess ==
    (Done /\ out.ended = "return") =>
        /\ out.response.statusCode = 200 <=>
              (UpstreamReturned /\ CarryingParts(inv.upstream.result) # <<>>)
        /\ out.response.statusCode = 200 =>
              (out.response.body.kind = "success"
               /\ out.response.body.images # <<>>)
        /\ (UpstreamReturned /\ CarryingParts(inv.upstream.result) = <<>>) =>
              out.response = _build_response(502, MessagePayload(MsgNoImages))
        /\ out.response.body.kind # "success" => out.response.statusCode # 200

\* C5: every invocation, whatever the event, the secret store and the
\* upstream do, ends by returning one response envelope; no exception escapes
\* to the host, and a failed credential lookup becomes the missing-key
\* response.
C5_AlwaysReturnsEnvelope ==
    Done =>
        /\ out.ended = "return"
        /\ out.response.statusCode # 0
        /\ (inv.store.t # "unused" /\ ~Truthy(out.api_key)) =>
              out.response.statusCode = 500

\* C6 as stated: the secret store is called exactly once per cold process and
\* zero times thereafter (here for the processes none of whose invocations
\* ends by raising).
C6_OneStoreCallPerProcess ==
    [][(ssmCalls >= 1 /\ ~escaped') => ssmCalls' = ssmCalls]_vars

\* C6: once a lookup has returned a non-empty key, every later invocation of
\* the process returns that cached key without calling the secret store, and
\* the cached key is never written again.
C6_WarmCacheIsFinal ==
    [][Truthy(cachedKey) =>
          /\ cachedKey' = cachedKey
          /\ ssmCalls' = ssmCalls
          /\ pc' = "done" => (out'.api_key = cachedKey /\ ~out'.ssmCalled)]_vars

C6_Witness ==
    /\ Done
    /\ Truthy(inv.cacheAtEntry)
    /\ inv.event = BasicEvent
    /\ ssmCalls = 1
    /\ out.api_key = inv.cacheAtEntry
    /\ Succeeded

\* The first of the attributes code, status_code, status, http_status that
\* is an int, as a sequence of zero or one element
NumericCode(error) ==
    SelectSeq(StatusAttrs(error), IsInt)

\* The 3-digit code that starts the trimmed message, as a sequence of zero
\* or one element
MessageCode(error) ==
    LET m == Strip(error.message) IN
    IF /\ Len(m) >= 3
       /\ {m[1], m[2], m[3]} \subseteq Digits
       /\ (Len(m) = 3 \/ m[4] \notin WordChars)
    THEN <<100 * DigitVal(m[1]) + 10 * DigitVal(m[2]) + DigitVal(m[3])>>
    ELSE <<>>

\* The status the order (a) numeric attribute, (b) leading code, (c) 502 gives
StatusInOrder(error) ==
    IF NumericCode(error) # <<>> THEN Head(NumericCode(error)).n
    ELSE IF MessageCode(error) # <<>> THEN Head(MessageCode(error))
    ELSE 502

\* The same order, with a derived code of 0 replaced by 502
StatusInOrderNonZero(error) ==
    IF StatusInOrder(error) = 0 THEN 502 ELSE StatusInOrder(error)

\* The response is the GeminiError payload and its status is the statusCode
IsGeminiError(response) ==
    /\ response.body.kind = "error"
    /\ response.body.error = "GeminiError"
    /\ response.body.status = response.statusCode

\* C7 as stated: when the upstream call raises, the response is the
\* GeminiError payload whose status is the statusCode, derived from (a) a
\* numeric code attribute, else (b) a leading 3-digit code of the message,
\* else (c) 502.
C7_StatusInOrder ==
    (Done /\ UpstreamRaised) =>
        /\ out.ended = "return"
        /\ IsGeminiError(out.response)
        /\ out.response.statusCode = StatusInOrder(inv.upstream.error)

\* C7: when the upstream call raises, the response is the GeminiError payload
\* whose status is the statusCode, derived from (a) the first int among the
\* attributes code, status_code, status, http_status, else (b) the 3-digit
\* code that starts the trimmed message, else (c) 502, where a derived code
\* of 0 also gives 502; an error with no int attribute and no leading code
\* gives 502.
C7_StatusInOrderNonZero ==
    (Done /\ UpstreamRaised) =>
        /\ out.ended = "return"
        /\ IsGeminiError(out.response)
        /\ out.response.body.message = inv.upstream.error.message
        /\ out.response.statusCode = StatusInOrderNonZero(inv.upstream.error)
        /\ (NumericCode(inv.upstream.error) = <<>>
            /\ MessageCode(inv.upstream.error) = <<>>) =>
              out.response.statusCode = 502

C7_Witness ==
    /\ Done
    /\ UpstreamRaised
    /\ ~IsInt(inv.upstream.error.code)
    /\ inv.upstream.error.status_code = PyInt(503)
    /\ inv.upstream.error.message = <<"4", "0", "4", " ", "x">>
    /\ out.response.statusCode = 503

\* The {mimeType, data} entry a carrying part stands for
EntryOf(part) ==
    LET inline == IF part.inline_data.present THEN part.inline_data
                  ELSE part.inlineData
        given == {m \in {inline.mime_type, inline.mimeType} : Truthy(m)}
    IN  [mimeType |-> IF given = {} THEN <<"image/png">>
                      ELSE (CHOOSE m \in given : TRUE).s,
         data |-> inline.data.s]

\* C8: after a successful upstream call the images of the response are, in
\* candidate order then part order, one {mimeType, data} entry per part that
\* carries inline image data, data verbatim and mimeType the upstream one or
\* "image/png"; nothing is deduplicated, reordered or filtered.
C8_ImagesAreConcatenation ==
    (Done /\ UpstreamReturned) =>
        LET carrying == CarryingParts(inv.upstream.result)
            images == out.response.body.images
        IN  /\ out.ended = "return"
            /\ Len(images) = Len(carrying)
            /\ \A i \in 1..Len(carrying) : images[i] = EntryOf(carrying[i])
            /\ carrying # <<>> => Succeeded

C8_Witness ==
    /\ Done
    /\ inv.upstream.result =
          Result(TRUE, <<Candidate(TRUE, <<BarePart, JpegPart>>),
                         Candidate(TRUE, <<TextPart, BarePart>>)>>)
    /\ Succeeded
    /\ Len(out.response.body.images) = 3
    /\ out.response.body.images[1] = out.response.body.images[3]
    /\ out.response.body.images[1].mimeType = <<"image/png">>
    /\ out.response.body.images[2].mimeType = <<"image/jpeg">>

\* The mime type the request supplies: mimeType, else mime_type, when it is a
\* string that is non-empty after trimming (zero or one element)
SuppliedMimeType(obj) ==
    LET given == SelectSeq(<<obj.mimeType, obj.mime_type>>, IsStr)
        kept == SelectSeq(given, LAMBDA v : Strip(v.s) # <<>>)
    IN  IF kept = <<>> THEN <<>> ELSE <<Strip(Head(kept).s)>>

\* C9: the call to the generation capability carries a generation_config
\* exactly when the request supplied a mime type that is non-empty after
\* trimming, and then it is {response_mime_type: that mime type}.
C9_ConfigIffMimeType ==
    (Done /\ out.calls # <<>>) =>
        LET supplied == SuppliedMimeType(inv.event.body.obj)
            config == out.calls[1].generation_config
        IN  /\ Len(out.calls) = 1
            /\ IsStr(config) <=> supplied # <<>>
            /\ supplied # <<>> => config = PyStr(Head(supplied))

\* The request supplies a model: a non-empty string
ModelSupplied(obj) == IsStr(obj.model) /\ obj.model.s # <<>>

\* C10 as stated: a supplied model appears verbatim as the model of the call
\* to the generation capability and as the model of the success response.
C10_ModelVerbatim ==
    (Done /\ out.calls # <<>> /\ ModelSupplied(inv.event.body.obj)) =>
        /\ out.calls[1].model = inv.event.body.obj.model.s
        /\ Succeeded => out.response.body.model = inv.event.body.obj.model.s

\* C10: a model that is a string and non-empty after trimming appears,
\* trimmed, as the model of the call to the generation capability and as the
\* model of the success response (a model of whitespace only gives the
\* default model); the two always agree.
C10_ModelTrimmed ==
    (Done /\ out.calls # <<>>) =>
        LET model == inv.event.body.obj.model IN
        /\ (IsStr(model) /\ Strip(model.s) # <<>>) =>
              out.calls[1].model = Strip(model.s)
        /\ (IsStr(model) /\ model.s # <<>> /\ Strip(model.s) = <<>>) =>
              out.calls[1].model = DEFAULT_MODEL
        /\ Succeeded => out.response.body.model = out.calls[1].model

C10_Witness ==
    /\ Done
    /\ inv.event.body.obj.model = PyStr(<<" ", "gemini-1.5-pro", " ">>)
    /\ out.calls # <<>>
    /\ out.calls[1].model = <<"gemini-1.5-pro">>
    /\ Succeeded
    /\ out.response.body.model = <<"gemini-1.5-pro">>

====
